---- MODULE Spec2Model ----
(***************************************************************************)
(* AuthService of the eWallet backend: authenticate, register,             *)
(* sendForgotPasswordEmail, resetPassword and generateResetPasswordToken,  *)
(* over a shared user table and a shared reset-password-token table.       *)
(* sendForgotPasswordEmail and resetPassword await their collaborators     *)
(* several times; every await is a step boundary where other requests,     *)
(* the clock and user deletion may interleave.  authenticate and register  *)
(* touch the store once, so each is one step.  Two handlers serve the      *)
(* requests.                                                               *)
(***************************************************************************)
EXTENDS Naturals, Integers, Sequences, FiniteSets, TLC

\* ------------------------------------------------------------------ bounds
MaxUsers == 2
MaxTokens == 3
MaxTime == 2
MaxCalls == 4

\* RESET_PASSWORD_TOKEN_EXPIRES_IN, in clock ticks
ResetTokenTTL == 1

Procs == 1..2
UserIds == 1..MaxUsers
Emails == {"a@x", "b@x"}
Names == {"n"}
Passwords == {"p", "q"}

VARIABLES
    users,        \* the user table: a set of rows
    nextUserId,   \* the next fresh user id
    tokens,       \* the reset-password-token table, in insertion order
    now,          \* the wall clock
    req,          \* per request handler: the call in progress, then its response
    calls         \* the number of calls begun so far

vars == <<users, nextUserId, tokens, now, req, calls>>

\* ------------------------------------------------------------- collaborators

\* BCryptHashProvider.generateHash: the stored form is never the plain text
GenerateHash(plain) == <<"bcrypt", plain>>

\* BCryptHashProvider.compareHash
CompareHash(plain, hashed) == hashed = GenerateHash(plain)

NoUser == [id |-> 0, email |-> "", name |-> "", password |-> <<"none", "">>]
NoToken == [id |-> 0, userId |-> 0, active |-> FALSE, expiresIn |-> 0, createdAt |-> 0]
NoOne == [id |-> 0, email |-> "", name |-> ""]

\* the row returned as it is stored
SanitizeNothing(u) == u

\* plainToClass(UserModel, user): the response carries no password field
Sanitize(u) == [id |-> u.id, email |-> u.email, name |-> u.name]

\* sign({}, secret, { subject: user.id, expiresIn })
Sign(u) == [sub |-> u.id]
NoJwt == [sub |-> 0]

\* prisma.user.findUnique({ where: { email } })
FindUserByEmail(tbl, email) ==
    IF \E u \in tbl : u.email = email
    THEN CHOOSE u \in tbl : u.email = email
    ELSE NoUser

\* prisma.user.findUnique({ where: { id } })
FindUserById(tbl, id) ==
    IF \E u \in tbl : u.id = id
    THEN CHOOSE u \in tbl : u.id = id
    ELSE NoUser

\* an update without its where clause: every row gets the password
UpdateEveryPassword(tbl, id, hashed) ==
    {[u EXCEPT !.password = hashed] : u \in tbl}

\* prisma.user.update({ where: { id }, data: { password } })
UpdateUserPassword(tbl, id, hashed) ==
    {IF u.id = id THEN [u EXCEPT !.password = hashed] ELSE u : u \in tbl}

\* prisma.resetPasswordToken.findUnique({ where: { id } })
FindTokenById(tbl, id) ==
    IF id \in 1..Len(tbl) THEN tbl[id] ELSE NoToken

\* the same query ordered by createdAt ascending: the oldest token of the user
FindOldestToken(tbl, userId) ==
    LET mine == {i \in 1..Len(tbl) : tbl[i].userId = userId}
    IN IF mine = {} THEN NoToken
       ELSE tbl[CHOOSE i \in mine : \A j \in mine : tbl[i].createdAt <= tbl[j].createdAt]

\* prisma.resetPasswordToken.findFirst({ where: { userId }, orderBy: { createdAt: 'desc' } })
FindLastToken(tbl, userId) ==
    LET mine == {i \in 1..Len(tbl) : tbl[i].userId = userId}
    IN IF mine = {} THEN NoToken
       ELSE tbl[CHOOSE i \in mine : \A j \in mine : tbl[j].createdAt <= tbl[i].createdAt]

\* a create that also retires the older rows of the user
CreateTokenRetiringOthers(tbl, userId, expiresIn) ==
    Append([i \in 1..Len(tbl) |->
               IF tbl[i].userId = userId THEN [tbl[i] EXCEPT !.active = FALSE] ELSE tbl[i]],
           [id |-> Len(tbl) + 1, userId |-> userId, active |-> TRUE,
            expiresIn |-> expiresIn, createdAt |-> Len(tbl) + 1])

\* prisma.resetPasswordToken.create({ data: { userId, active: true, expiresIn } }):
\* the id is fresh and createdAt is the insertion instant, later than every row's
CreateToken(tbl, userId, expiresIn) ==
    Append(tbl, [id |-> Len(tbl) + 1, userId |-> userId, active |-> TRUE,
                 expiresIn |-> expiresIn, createdAt |-> Len(tbl) + 1])

\* an update that also moves the expiry of the row to the epoch
DeactivateTokenAndExpire(tbl, id) == [tbl EXCEPT ![id].active = FALSE, ![id].expiresIn = 0]

\* prisma.resetPasswordToken.update({ where: { id }, data: { active: false } })
DeactivateToken(tbl, id) == [tbl EXCEPT ![id].active = FALSE]

\* ------------------------------------------------------------------ errors
Ok == "ok"
ErrNoSuchEmail == "Incorrect email/paswword combination"
ErrWrongPasswordTold == "Incorrect password"
ErrWrongPassword == "Incorrect email/paswword combination"
ErrMismatch == "Password and password confirmation do not match"
ErrInvalidToken == "Invalid reset password token"
ErrOrphanToken == "Invalid reset password token"
ErrExpiredToken == "Reset password token is expired"
ErrEmailInUse == "The provided email is already in use"
ErrUserNotFound == "User not found"
ErrStore == "store failure"
ErrMail == "mail failure"

Success(u, jwt) == [ok |-> TRUE, message |-> Ok, user |-> u, token |-> jwt]
Failure(msg) == [ok |-> FALSE, message |-> msg, user |-> NoOne, token |-> NoJwt]
NoResult == [ok |-> FALSE, message |-> "", user |-> NoOne, token |-> NoJwt]

\* ---------------------------------------------------------------- requests

\* a handler: the call (op, arguments), its position, its locals (user and tok are
\* the copies read from the store; of the user copy the methods read the id only),
\* its response, and its history (io: store accesses made, sent: sendEmail calls
\* accepted, issued: the id of the token generateResetPasswordToken returned,
\* usedAtStart: the presented token was already consumed when the call issued its
\* first lookup)
Idle ==
    [op |-> "none", pc |-> "idle", email |-> "", name |-> "", password |-> "",
     confirmation |-> "", token |-> 0, user |-> NoOne, tok |-> NoToken,
     newExpiresIn |-> 0, result |-> NoResult, io |-> 0, sent |-> 0, issued |-> 0,
     usedAtStart |-> FALSE]

\* the call ends: its locals are gone; the request, its response and its history
\* remain until the response is delivered
Done(r, res) ==
    [r EXCEPT !.pc = "done", !.result = res, !.user = NoOne, !.tok = NoToken,
              !.newExpiresIn = 0]

\* the dispatcher hands a request to the first free handler; the run is cut after
\* MaxCalls calls
Free(p) ==
    /\ calls < MaxCalls
    /\ req[p].pc = "idle"
    /\ \A q \in Procs : q < p => req[q].pc # "idle"

\* ------------------------------------------------------------------- state
Init ==
    /\ users = {}
    /\ nextUserId = 1
    /\ tokens = << >>
    /\ now = 0
    /\ req = [p \in Procs |-> Idle]
    /\ calls = 0

\* ------------------------------------------------------------ authenticate

\* AuthService.authenticate: the user row is read once; the comparison and the
\* signing work on that copy
AuthenticateOutcome(tbl, email, password) ==
    LET user == FindUserByEmail(tbl, email)
    IN IF user.id = 0 THEN Failure(ErrNoSuchEmail)
       ELSE IF ~CompareHash(password, user.password) THEN Failure(ErrWrongPassword)
       ELSE Success(Sanitize(user), Sign(user))

Authenticate(p, email, password) ==
    LET call == [Idle EXCEPT !.op = "authenticate", !.email = email,
                             !.password = password, !.io = 1]
    IN /\ Free(p)
       /\ req' = [req EXCEPT ![p] =
                     Done(call, AuthenticateOutcome(users, email, password))]
       /\ calls' = calls + 1
       /\ UNCHANGED <<users, nextUserId, tokens, now>>

\* ---------------------------------------------------------------- register

\* UsersService.create: the checks that reject the data; which of two failing
\* checks reports is not fixed
CreateRejections(tbl, email, password, confirmation) ==
    (IF password # confirmation THEN {ErrMismatch} ELSE {})
    \cup (IF \E u \in tbl : u.email = email THEN {ErrEmailInUse} ELSE {})

\* UsersService.create: the row stored for accepted data
NewUser(id, email, name, password) ==
    [id |-> id, email |-> email, name |-> name, password |-> GenerateHash(password)]

\* AuthService.register: what follows a userService.create that did not throw
RegisterResult(user) == Success(Sanitize(user), Sign(user))

\* a register that writes the row itself instead of going through UsersService.create
RegisterUnchecked(p, email, name, password, confirmation) ==
    LET call == [Idle EXCEPT !.op = "register", !.email = email, !.name = name,
                             !.password = password, !.confirmation = confirmation,
                             !.io = 1]
        user == NewUser(nextUserId, email, name, password)
    IN /\ Free(p)
       /\ nextUserId <= MaxUsers
       /\ users' = users \cup {user}
       /\ nextUserId' = nextUserId + 1
       /\ req' = [req EXCEPT ![p] = Done(call, RegisterResult(user))]
       /\ calls' = calls + 1
       /\ UNCHANGED <<tokens, now>>

Register(p, email, name, password, confirmation) ==
    LET call == [Idle EXCEPT !.op = "register", !.email = email, !.name = name,
                             !.password = password, !.confirmation = confirmation,
                             !.io = 1]
        rejections == CreateRejections(users, email, password, confirmation)
        user == NewUser(nextUserId, email, name, password)
    IN /\ Free(p)
       /\ IF rejections # {}
          THEN /\ \E e \in rejections : req' = [req EXCEPT ![p] = Done(call, Failure(e))]
               /\ UNCHANGED <<users, nextUserId>>
          ELSE /\ nextUserId <= MaxUsers
               /\ users' = users \cup {user}
               /\ nextUserId' = nextUserId + 1
               /\ req' = [req EXCEPT ![p] = Done(call, RegisterResult(user))]
       /\ calls' = calls + 1
       /\ UNCHANGED <<tokens, now>>

\* ----------------------------------------------------------- resetPassword

\* the expiry test without its active-flag half
IsResetRejectedByTimeOnly(tok, t) == t > tok.expiresIn

\* the test with >= for >: a token is refused at its expiresIn already
IsResetRejectedAtBoundary(tok, t) == t >= tok.expiresIn \/ ~tok.active

\* isAfter(Date.now(), resetPasswordToken.expiresIn) || !resetPasswordToken.active
IsResetRejected(tok, t) == t > tok.expiresIn \/ ~tok.active

\* a resetPassword that looks the token up before it compares the passwords
ResetStartLookupFirst(p, token, password, confirmation) ==
    LET call == [Idle EXCEPT !.op = "reset", !.token = token, !.password = password,
                             !.confirmation = confirmation, !.io = 1]
    IN /\ Free(p)
       /\ req' = [req EXCEPT ![p] =
                     IF FindTokenById(tokens, token).id = 0
                     THEN Done(call, Failure(ErrInvalidToken))
                     ELSE IF password # confirmation
                          THEN Done(call, Failure(ErrMismatch))
                          ELSE [call EXCEPT !.pc = "rp_findUser",
                                            !.tok = FindTokenById(tokens, token),
                                            !.usedAtStart = ~FindTokenById(tokens, token).active]]
       /\ calls' = calls + 1
       /\ UNCHANGED <<users, nextUserId, tokens, now>>

\* the synchronous head of resetPassword: the confirmation check, before any await
ResetStart(p, token, password, confirmation) ==
    LET call == [Idle EXCEPT !.op = "reset", !.token = token, !.password = password,
                             !.confirmation = confirmation]
    IN /\ Free(p)
       /\ req' = [req EXCEPT ![p] =
                     IF password # confirmation
                     THEN Done(call, Failure(ErrMismatch))
                     ELSE [call EXCEPT !.pc = "rp_findToken",
                                       !.usedAtStart = ~FindTokenById(tokens, token).active
                                                       /\ token <= Len(tokens)]]
       /\ calls' = calls + 1
       /\ UNCHANGED <<users, nextUserId, tokens, now>>

\* a lookup that retires the row it finds
ResetFindTokenRetiring(p) ==
    LET r == req[p]
        tok == FindTokenById(tokens, r.token)
        read == [r EXCEPT !.tok = tok, !.io = @ + 1]
    IN /\ r.pc = "rp_findToken"
       /\ req' = [req EXCEPT ![p] =
                     IF tok.id = 0
                     THEN Done(read, Failure(ErrInvalidToken))
                     ELSE [read EXCEPT !.pc = "rp_findUser"]]
       /\ tokens' = IF tok.id = 0 THEN tokens ELSE DeactivateToken(tokens, tok.id)
       /\ UNCHANGED <<users, nextUserId, now, calls>>

\* the token row is read by id
ResetFindToken(p) ==
    LET r == req[p]
        tok == FindTokenById(tokens, r.token)
        read == [r EXCEPT !.tok = tok, !.io = @ + 1]
    IN /\ r.pc = "rp_findToken"
       /\ req' = [req EXCEPT ![p] =
                     IF tok.id = 0
                     THEN Done(read, Failure(ErrInvalidToken))
                     ELSE [read EXCEPT !.pc = "rp_findUser"]]
       /\ UNCHANGED <<users, nextUserId, tokens, now, calls>>

\* the same reads with the expiry test placed before the owner test
ResetFindUserExpiryFirst(p) ==
    LET r == req[p]
        user == FindUserById(users, r.tok.userId)
        read == [r EXCEPT !.user = Sanitize(user), !.io = @ + 1]
    IN /\ r.pc = "rp_findUser"
       /\ req' = [req EXCEPT ![p] =
                     IF IsResetRejected(r.tok, now)
                     THEN Done(read, Failure(ErrExpiredToken))
                     ELSE IF user.id = 0 THEN Done(read, Failure(ErrOrphanToken))
                          ELSE [read EXCEPT !.pc = "rp_updateUser"]]
       /\ UNCHANGED <<users, nextUserId, tokens, now, calls>>

\* the owner is read by id; then the expiry test on the token copy read before
ResetFindUser(p) ==
    LET r == req[p]
        user == FindUserById(users, r.tok.userId)
        read == [r EXCEPT !.user = Sanitize(user), !.io = @ + 1]
    IN /\ r.pc = "rp_findUser"
       /\ req' = [req EXCEPT ![p] =
                     IF user.id = 0 THEN Done(read, Failure(ErrOrphanToken))
                     ELSE IF IsResetRejected(r.tok, now)
                          THEN Done(read, Failure(ErrExpiredToken))
                          ELSE [read EXCEPT !.pc = "rp_updateUser"]]
       /\ UNCHANGED <<users, nextUserId, tokens, now, calls>>

\* an update that writes the password and retires the token in one step
ResetUpdateUserRetiringToken(p) ==
    LET r == req[p]
        hashedPassword == GenerateHash(r.password)
        wrote == [r EXCEPT !.io = @ + 1]
    IN /\ r.pc = "rp_updateUser"
       /\ IF \E u \in users : u.id = r.user.id
          THEN /\ users' = UpdateUserPassword(users, r.user.id, hashedPassword)
               /\ tokens' = DeactivateToken(tokens, r.tok.id)
               /\ req' = [req EXCEPT ![p] = [wrote EXCEPT !.pc = "rp_updateToken"]]
          ELSE /\ req' = [req EXCEPT ![p] = Done(wrote, Failure(ErrStore))]
               /\ UNCHANGED <<users, tokens>>
       /\ UNCHANGED <<nextUserId, now, calls>>

\* generateHash, then prisma.user.update: a row that is gone makes the update throw
ResetUpdateUser(p) ==
    LET r == req[p]
        hashedPassword == GenerateHash(r.password)
        wrote == [r EXCEPT !.io = @ + 1]
    IN /\ r.pc = "rp_updateUser"
       /\ IF \E u \in users : u.id = r.user.id
          THEN /\ users' = UpdateUserPassword(users, r.user.id, hashedPassword)
               /\ req' = [req EXCEPT ![p] = [wrote EXCEPT !.pc = "rp_updateToken"]]
          ELSE /\ req' = [req EXCEPT ![p] = Done(wrote, Failure(ErrStore))]
               /\ UNCHANGED users
       /\ UNCHANGED <<nextUserId, tokens, now, calls>>

\* prisma.user.update rejects: the error propagates, the token is not touched
ResetUpdateUserFails(p) ==
    /\ req[p].pc = "rp_updateUser"
    /\ req' = [req EXCEPT ![p] = Done([req[p] EXCEPT !.io = @ + 1], Failure(ErrStore))]
    /\ UNCHANGED <<users, nextUserId, tokens, now, calls>>

\* prisma.resetPasswordToken.update: the token is consumed and the call returns
ResetUpdateToken(p) ==
    LET r == req[p]
    IN /\ r.pc = "rp_updateToken"
       /\ tokens' = DeactivateToken(tokens, r.tok.id)
       /\ req' = [req EXCEPT ![p] = Done([r EXCEPT !.io = @ + 1], Success(NoOne, NoJwt))]
       /\ UNCHANGED <<users, nextUserId, now, calls>>

\* prisma.resetPasswordToken.update rejects: the password is already written
ResetUpdateTokenFails(p) ==
    /\ req[p].pc = "rp_updateToken"
    /\ req' = [req EXCEPT ![p] = Done([req[p] EXCEPT !.io = @ + 1], Failure(ErrStore))]
    /\ UNCHANGED <<users, nextUserId, tokens, now, calls>>

\* ------------------------------------------ sendForgotPasswordEmail, generate

\* a sendForgotPasswordEmail that goes on without looking at the result of the lookup
ForgotStartUnchecked(p, email) ==
    LET user == FindUserByEmail(users, email)
        call == [Idle EXCEPT !.op = "forgot", !.email = email,
                             !.user = Sanitize(user), !.io = 1]
    IN /\ Free(p)
       /\ req' = [req EXCEPT ![p] = [call EXCEPT !.pc = "gen_read"]]
       /\ calls' = calls + 1
       /\ UNCHANGED <<users, nextUserId, tokens, now>>

\* UsersService.findByEmail, then the call of generateResetPasswordToken(user.id)
ForgotStart(p, email) ==
    LET user == FindUserByEmail(users, email)
        call == [Idle EXCEPT !.op = "forgot", !.email = email,
                             !.user = Sanitize(user), !.io = 1]
    IN /\ Free(p)
       /\ req' = [req EXCEPT ![p] =
                     IF user.id = 0
                     THEN Done(call, Failure(ErrUserNotFound))
                     ELSE [call EXCEPT !.pc = "gen_read"]]
       /\ calls' = calls + 1
       /\ UNCHANGED <<users, nextUserId, tokens, now>>

\* generateResetPasswordToken: the most recent token of the user is read
GenerateRead(p) ==
    LET r == req[p]
    IN /\ r.pc = "gen_read"
       /\ req' = [req EXCEPT ![p] =
                     [r EXCEPT !.tok = FindLastToken(tokens, r.user.id), !.io = @ + 1,
                               !.pc = "gen_decide"]]
       /\ UNCHANGED <<users, nextUserId, tokens, now, calls>>

\* the test with <= for <: a token is taken as expired at its expiresIn already
IsLastTokenExpiredAtBoundary(lastToken, t) ==
    lastToken.id = 0 \/ ~lastToken.active \/ lastToken.expiresIn <= t

\* !lastToken || !lastToken.active || lastToken.expiresIn < new Date()
IsLastTokenExpired(lastToken, t) ==
    lastToken.id = 0 \/ ~lastToken.active \/ lastToken.expiresIn < t

\* the duration taken for the instant
NewExpiresInWithoutNow(t) == ResetTokenTTL

\* addMinutes(new Date(), Number(process.env.RESET_PASSWORD_TOKEN_EXPIRES_IN))
NewExpiresIn(t) == t + ResetTokenTTL

\* generateResetPasswordToken: the test on the copy read, at the time the read
\* returns; reuse returns that copy, otherwise the create is issued
GenerateDecide(p) ==
    LET r == req[p]
    IN /\ r.pc = "gen_decide"
       /\ req' = [req EXCEPT ![p] =
                     IF IsLastTokenExpired(r.tok, now)
                     THEN [r EXCEPT !.newExpiresIn = NewExpiresIn(now), !.pc = "gen_create"]
                     ELSE [r EXCEPT !.issued = r.tok.id, !.pc = "fp_send"]]
       /\ UNCHANGED <<users, nextUserId, tokens, now, calls>>

\* generateResetPasswordToken: the new row is inserted and returned
GenerateCreate(p) ==
    LET r == req[p]
        tbl == CreateToken(tokens, r.user.id, r.newExpiresIn)
    IN /\ r.pc = "gen_create"
       /\ Len(tokens) < MaxTokens
       /\ tokens' = tbl
       /\ req' = [req EXCEPT ![p] =
                     [r EXCEPT !.tok = tbl[Len(tbl)], !.issued = tbl[Len(tbl)].id,
                               !.newExpiresIn = 0, !.io = @ + 1, !.pc = "fp_send"]]
       /\ UNCHANGED <<users, nextUserId, now, calls>>

\* mailProvider.sendEmail accepts the message carrying the token
ForgotSend(p) ==
    LET r == req[p]
    IN /\ r.pc = "fp_send"
       /\ req' = [req EXCEPT ![p] = Done([r EXCEPT !.sent = @ + 1], Success(NoOne, NoJwt))]
       /\ UNCHANGED <<users, nextUserId, tokens, now, calls>>

\* a failure path that takes the token back
ForgotSendFailsRollingBack(p) ==
    /\ req[p].pc = "fp_send"
    /\ req' = [req EXCEPT ![p] = Done(req[p], Failure(ErrMail))]
    /\ tokens' = DeactivateToken(tokens, req[p].issued)
    /\ UNCHANGED <<users, nextUserId, now, calls>>

\* mailProvider.sendEmail rejects: the error propagates, nothing is undone
ForgotSendFails(p) ==
    /\ req[p].pc = "fp_send"
    /\ req' = [req EXCEPT ![p] = Done(req[p], Failure(ErrMail))]
    /\ UNCHANGED <<users, nextUserId, tokens, now, calls>>

\* ------------------------------------------------------------- environment

\* UsersService.delete: the user row goes, its token rows stay
DeleteUser(id) ==
    /\ \E u \in users : u.id = id
    /\ users' = {u \in users : u.id # id}
    /\ UNCHANGED <<nextUserId, tokens, now, req, calls>>

\* the clock advances
Tick ==
    /\ now < MaxTime
    /\ now' = now + 1
    /\ UNCHANGED <<users, nextUserId, tokens, req, calls>>

\* the response is delivered and the handler is free again
Return(p) ==
    /\ req[p].pc = "done"
    /\ req' = [req EXCEPT ![p] = Idle]
    /\ UNCHANGED <<users, nextUserId, tokens, now, calls>>

\* ---------------------------------------------------------------- behaviour
Next ==
    \/ \E p \in Procs, e \in Emails, w \in Passwords : Authenticate(p, e, w)
    \/ \E p \in Procs, e \in Emails, n \in Names, w \in Passwords, c \in Passwords :
          Register(p, e, n, w, c)
    \/ \E p \in Procs, t \in 1..MaxTokens, w \in Passwords, c \in Passwords :
          ResetStart(p, t, w, c)
    \/ \E p \in Procs : ResetFindToken(p)
    \/ \E p \in Procs : ResetFindUser(p)
    \/ \E p \in Procs : ResetUpdateUser(p)
    \/ \E p \in Procs : ResetUpdateUserFails(p)
    \/ \E p \in Procs : ResetUpdateToken(p)
    \/ \E p \in Procs : ResetUpdateTokenFails(p)
    \/ \E p \in Procs, e \in Emails : ForgotStart(p, e)
    \/ \E p \in Procs : GenerateRead(p)
    \/ \E p \in Procs : GenerateDecide(p)
    \/ \E p \in Procs : GenerateCreate(p)
    \/ \E p \in Procs : ForgotSend(p)
    \/ \E p \in Procs : ForgotSendFails(p)
    \/ \E p \in Procs : Return(p)
    \/ \E u \in UserIds : DeleteUser(u)
    \/ Tick

Spec == Init /\ [][Next]_vars

\* the user a token call of handler p is working for, 0 when none
TokenCallUser(rq, tbl, p) ==
    LET r == rq[p]
    IN IF r.pc \in {"gen_read", "gen_decide", "gen_create"} THEN r.user.id
       ELSE IF r.pc = "rp_findToken" THEN FindTokenById(tbl, r.token).userId
       ELSE IF r.pc \in {"rp_findUser", "rp_updateUser", "rp_updateToken"} THEN r.tok.userId
       ELSE 0

\* no two handlers run token calls for the same user at once
NoOverlap(rq, tbl) ==
    \A p, q \in Procs :
        p # q /\ TokenCallUser(rq, tbl, p) # 0
            => TokenCallUser(rq, tbl, p) # TokenCallUser(rq, tbl, q)

\* the executions in which the token calls of one user never overlap
NextSerial == Next /\ NoOverlap(req', tokens')

SpecSerial == Init /\ [][NextSerial]_vars

\* ------------------------------------------------------------------ claims

\* a token row that permits a reset at time t: active and not past its expiresIn
Usable(tok, t) == tok.active /\ tok.expiresIn >= t

\* the rows of user u that are usable at time t
UsableTokens(tbl, u, t) ==
    {i \in 1..Len(tbl) : tbl[i].userId = u /\ Usable(tbl[i], t)}

\* the owner of the token a reset call presents is still stored
OwnerStored(r) ==
    \E u \in users : u.id = FindTokenById(tokens, r.token).userId

\* (C1, as stated) a resetPassword call that presents, with matching confirmation,
\* a token an earlier resetPassword has consumed fails with 'Reset password token
\* is expired'
C1_ConsumedTokenExpired ==
    \A p \in Procs :
        req[p].op = "reset" /\ req[p].usedAtStart /\ req[p].pc = "done"
            => req[p].result = Failure(ErrExpiredToken)

\* (C1, amended) such a call never reaches the password update; it fails with
\* 'Reset password token is expired' or, only when the token's owner is no longer
\* stored, with 'Invalid reset password token'
C1_ConsumedTokenRefused ==
    \A p \in Procs :
        req[p].op = "reset" /\ req[p].usedAtStart
            => /\ req[p].pc \in {"rp_findToken", "rp_findUser", "done"}
               /\ req[p].pc = "done"
                     => \/ req[p].result = Failure(ErrExpiredToken)
                        \/ req[p].result = Failure(ErrOrphanToken) /\ ~OwnerStored(req[p])

\* a consumed token was presented again, with its owner still stored, and refused
C1_Witness ==
    \E p \in Procs :
        /\ req[p].op = "reset" /\ req[p].usedAtStart /\ req[p].pc = "done"
        /\ req[p].result = Failure(ErrExpiredToken)
        /\ OwnerStored(req[p])

\* (C2) no two resetPassword calls that present the same token id have both
\* completed their password update
C2_SingleUse ==
    \A p, q \in Procs :
        p # q /\ req[p].pc = "rp_updateToken" /\ req[q].pc = "rp_updateToken"
            => req[p].token # req[q].token

\* every user has at most one token that is active and unexpired
C3_AtMostOneUsable ==
    \A u \in UserIds : Cardinality(UsableTokens(tokens, u, now)) <= 1

\* a step that adds a token row starts where its user has no usable token at all
C3_MintOnlyWhenNoneUsable ==
    [][Len(tokens') > Len(tokens)
          => UsableTokens(tokens, tokens'[Len(tokens')].userId, now) = {}]_vars

\* (C3) when the token calls of a user do not overlap, at most one token of the
\* user is active and unexpired in every state, and a token is minted only when no
\* token of that user, the most recent or any other, is active and unexpired
C3_OneUsableTokenPerUser == []C3_AtMostOneUsable /\ C3_MintOnlyWhenNoneUsable

\* a user has a usable token next to an older one that is no longer usable
C3_Witness ==
    \E u \in UserIds :
        /\ Cardinality(UsableTokens(tokens, u, now)) = 1
        /\ \E i \in 1..Len(tokens) : tokens[i].userId = u /\ ~Usable(tokens[i], now)

\* handler p takes a step
Steps(p) == req'[p] # req[p]

\* (C4) the insert of generateResetPasswordToken looks at no other row: it adds its
\* token to the user's usable tokens and retires none, so two calls that both
\* decided to create before either inserted leave two active, unexpired tokens
C4_MintRetiresNothing ==
    [][\A p \in Procs :
          req[p].pc = "gen_create" /\ Steps(p)
              => LET u == req[p].user.id
                 IN UsableTokens(tokens', u, now)
                       = UsableTokens(tokens, u, now)
                         \cup (IF req[p].newExpiresIn >= now THEN {Len(tokens')} ELSE {})]_vars

\* both handlers minted a token for the same user and both tokens are usable
C4_Witness ==
    \E p, q \in Procs :
        /\ p # q
        /\ req[p].pc = "fp_send" /\ req[q].pc = "fp_send"
        /\ req[p].io = 3 /\ req[q].io = 3
        /\ req[p].user.id = req[q].user.id
        /\ req[p].issued # req[q].issued
        /\ Usable(tokens[req[p].issued], now) /\ Usable(tokens[req[q].issued], now)

\* (C5) when the token calls of a user do not overlap, a generateResetPasswordToken
\* call made while the user's most recent token is active and not past its
\* expiresIn returns that token and changes no row, so two such calls return the
\* same id
C5_ReuseWithinValidity ==
    [][\A p \in Procs :
          (/\ req[p].pc = "gen_decide" /\ Steps(p)
           /\ Usable(FindLastToken(tokens, req[p].user.id), now))
              => /\ req'[p].pc = "fp_send"
                 /\ req'[p].issued = FindLastToken(tokens, req[p].user.id).id
                 /\ tokens' = tokens]_vars

\* a second call has returned the token the first call returned
C5_Witness ==
    \E p, q \in Procs :
        /\ p # q
        /\ req[p].op = "forgot" /\ req[p].pc = "done" /\ req[p].issued # 0
        /\ req[q].pc = "fp_send" /\ req[q].io = 2
        /\ req[q].issued = req[p].issued
        /\ Usable(tokens[req[q].issued], now)

\* (C6) a generateResetPasswordToken call that reads no token, an inactive token or
\* a token whose expiresIn is before now decides to create with expiresIn = now +
\* TTL, and its insert adds exactly one row (fresh id, the user's id, active) and
\* changes no existing row
C6_MintWhenExpired ==
    [][\A p \in Procs :
          /\ (/\ req[p].pc = "gen_decide" /\ Steps(p)
              /\ (req[p].tok.id = 0 \/ ~req[p].tok.active \/ req[p].tok.expiresIn < now))
                => /\ req'[p].pc = "gen_create"
                   /\ req'[p].newExpiresIn = now + ResetTokenTTL
                   /\ tokens' = tokens
          /\ (req[p].pc = "gen_create" /\ Steps(p))
                => /\ Len(tokens') = Len(tokens) + 1
                   /\ \A i \in 1..Len(tokens) :
                         tokens'[i] = tokens[i] /\ tokens[i].id # tokens'[Len(tokens')].id
                   /\ tokens'[Len(tokens')].userId = req[p].user.id
                   /\ tokens'[Len(tokens')].active
                   /\ tokens'[Len(tokens')].expiresIn = req[p].newExpiresIn
                   /\ req'[p].issued = tokens'[Len(tokens')].id]_vars

\* a token was minted because the previous one had run out of time; the previous
\* one is still active
C6_Witness ==
    \E p \in Procs :
        /\ req[p].pc = "fp_send" /\ req[p].io = 3
        /\ tokens[req[p].issued].expiresIn = now + ResetTokenTTL
        /\ \E i \in 1..Len(tokens) :
              /\ i # req[p].issued
              /\ tokens[i].userId = req[p].user.id
              /\ tokens[i].active /\ tokens[i].expiresIn < now

\* the stored user with this email does not have this password
WrongPasswordFor(email, password) ==
    /\ FindUserByEmail(users, email).id # 0
    /\ ~CompareHash(password, FindUserByEmail(users, email).password)

\* (C7) in every store state, authenticate with an unregistered email and
\* authenticate with a registered email and a wrong password give the same failure,
\* the one every failed authenticate call reports
C7_Indistinguishable ==
    /\ \A e1, e2 \in Emails, w1, w2 \in Passwords :
          FindUserByEmail(users, e1).id = 0 /\ WrongPasswordFor(e2, w2)
              => /\ ~AuthenticateOutcome(users, e1, w1).ok
                 /\ AuthenticateOutcome(users, e1, w1) = AuthenticateOutcome(users, e2, w2)
    /\ \A p, q \in Procs :
          (/\ req[p].op = "authenticate" /\ req[p].pc = "done" /\ ~req[p].result.ok
           /\ req[q].op = "authenticate" /\ req[q].pc = "done" /\ ~req[q].result.ok)
              => req[p].result = req[q].result

\* one call failed on an unregistered email, another on a wrong password
C7_Witness ==
    \E p, q \in Procs :
        /\ req[p].op = "authenticate" /\ req[p].pc = "done" /\ ~req[p].result.ok
        /\ FindUserByEmail(users, req[p].email).id = 0
        /\ req[q].op = "authenticate" /\ req[q].pc = "done" /\ ~req[q].result.ok
        /\ WrongPasswordFor(req[q].email, req[q].password)

\* a reset call with differing password and confirmation has ended with the 'do
\* not match' error and has made no store access
C8_MismatchState ==
    \A p \in Procs :
        req[p].op = "reset" /\ req[p].password # req[p].confirmation
            => req[p].pc = "done" /\ req[p].result = Failure(ErrMismatch) /\ req[p].io = 0

\* the step of such a call changes neither table
C8_MismatchStep ==
    [][\A p \in Procs :
          Steps(p) /\ req'[p].op = "reset" /\ req'[p].password # req'[p].confirmation
              => users' = users /\ tokens' = tokens]_vars

\* (C8) a resetPassword call whose password differs from its confirmation has
\* ended with the 'do not match' error without any access to the token table or
\* the user table, whatever token it presents, and its step changes neither table
C8_MismatchBeforeLookup == []C8_MismatchState /\ C8_MismatchStep

\* the mismatching call presented a token that would have permitted the reset, and
\* another one presented an unknown token
C8_Witness ==
    \E p, q \in Procs :
        /\ req[p].op = "reset" /\ req[p].password # req[p].confirmation
        /\ req[p].pc = "done"
        /\ Usable(FindTokenById(tokens, req[p].token), now) /\ OwnerStored(req[p])
        /\ req[q].op = "reset" /\ req[q].password # req[q].confirmation
        /\ req[q].pc = "done"
        /\ FindTokenById(tokens, req[q].token).id = 0

\* handler p begins and ends a register call in this step
Registers(p) == req[p].pc = "idle" /\ req'[p].op = "register"

C9_UniqueEmails ==
    \A u, v \in users : u.email = v.email \/ u.id = v.id => u = v

\* register with an email of a stored user fails with one of the two errors of
\* user creation, issues no token and leaves the user table unchanged
C9_DuplicateEmailStep ==
    [][\A p \in Procs :
          Registers(p) /\ (\E u \in users : u.email = req'[p].email)
              => /\ ~req'[p].result.ok
                 /\ req'[p].result.message \in {ErrEmailInUse, ErrMismatch}
                 /\ req'[p].password = req'[p].confirmation
                       => req'[p].result.message = ErrEmailInUse
                 /\ req'[p].result.token = NoJwt
                 /\ users' = users /\ nextUserId' = nextUserId]_vars

C10_RegisterThenAuthenticate ==
    [][\A p \in Procs :
          Registers(p) /\ req'[p].result.ok
              => \E row \in users' :
                    /\ row \notin users
                    /\ users' = users \cup {row}
                    /\ \A u \in users : u.id # row.id
                    /\ row.email = req'[p].email /\ row.name = req'[p].name
                    /\ req'[p].result.user = [id |-> row.id, email |-> req'[p].email,
                                              name |-> req'[p].name]
                    /\ req'[p].result.token.sub = row.id
                    /\ AuthenticateOutcome(users', req'[p].email, req'[p].password).ok
                    /\ AuthenticateOutcome(users', req'[p].email, req'[p].password).user
                          = req'[p].result.user
                    /\ AuthenticateOutcome(users', req'[p].email, req'[p].password).token.sub
                          = row.id]_vars

\* a register call and an authenticate call with its email and password both
\* succeeded, with the same subject
C10_Witness ==
    \E p, q \in Procs :
        /\ req[p].op = "register" /\ req[p].pc = "done" /\ req[p].result.ok
        /\ req[q].op = "authenticate" /\ req[q].pc = "done" /\ req[q].result.ok
        /\ req[q].email = req[p].email /\ req[q].password = req[p].password
        /\ req[q].result.token.sub = req[p].result.token.sub
        /\ req[q].result.user = req[p].result.user

\* (C11) in resetPassword the password is written before the token is retired: a
\* token's active flag goes to false only in the step of a call whose user update
\* has succeeded, and that step leaves the users alone; the step of the user update
\* never touches a token, whether it writes the new hash or fails; a failing token
\* update leaves the written password and the still-active token as they are
C11_PasswordBeforeToken ==
    [][/\ \A i \in 1..Len(tokens) :
             tokens[i].active /\ ~tokens'[i].active
                 => /\ users' = users
                    /\ \E p \in Procs :
                          /\ req[p].pc = "rp_updateToken" /\ req[p].tok.id = i
                          /\ req[p].io = 3
                          /\ req'[p].result = Success(NoOne, NoJwt)
       /\ \A p \in Procs :
             /\ (req[p].pc = "rp_updateUser" /\ Steps(p))
                   => /\ tokens' = tokens
                      /\ \/ /\ req'[p].pc = "rp_updateToken"
                            /\ FindUserById(users', req[p].user.id).password
                                  = GenerateHash(req[p].password)
                         \/ /\ req'[p].pc = "done" /\ ~req'[p].result.ok
                            /\ users' = users
             /\ (req[p].pc = "rp_updateToken" /\ Steps(p) /\ ~req'[p].result.ok)
                   => tokens' = tokens /\ users' = users]_vars

\* a reset failed at its token update: the owner has the new password and the
\* token is still active and within its time
C11_Witness ==
    \E p \in Procs :
        /\ req[p].op = "reset" /\ req[p].pc = "done" /\ req[p].io = 4
        /\ req[p].result = Failure(ErrStore)
        /\ Usable(tokens[req[p].token], now)
        /\ FindUserById(users, tokens[req[p].token].userId).password
              = GenerateHash(req[p].password)
        /\ req[p].password = "q"

\* (C12) at the step in which generateResetPasswordToken returns a token to
\* sendForgotPasswordEmail, new or reused, the row of that token in the store is
\* active (the part of 'usable' the clock cannot undo)
C12_IssuedTokenActive ==
    [][\A p \in Procs :
          req[p].pc # "fp_send" /\ req'[p].pc = "fp_send"
              => /\ req'[p].issued \in 1..Len(tokens')
                 /\ tokens'[req'[p].issued].active]_vars

C14_TokensOnlyRetire ==
    [][/\ Len(tokens') >= Len(tokens)
       /\ now' >= now
       /\ \A i \in 1..Len(tokens) :
             /\ tokens'[i].id = tokens[i].id
             /\ tokens'[i].userId = tokens[i].userId
             /\ tokens'[i].expiresIn = tokens[i].expiresIn
             /\ tokens'[i].createdAt = tokens[i].createdAt
             /\ tokens'[i].active => tokens[i].active
             /\ ~Usable(tokens[i], now) => ~Usable(tokens'[i], now')]_vars

\* the table holds a consumed row next to a row that ran out of time while active
C14_Witness ==
    \E i, j \in 1..Len(tokens) :
        /\ ~tokens[i].active
        /\ tokens[j].active /\ tokens[j].expiresIn < now

\* (C15) resetPassword reports the first failing check in the order mismatch,
\* unknown token, missing owner, expired-or-inactive: a mismatch ends the call at
\* once; an unknown token id and a token whose owner is not stored both end it with
\* 'Invalid reset password token', the latter also when the token is expired or
\* inactive; the 'expired' error is given only when the owner is stored
C15_FirstFailingCheck ==
    [][\A p \in Procs :
          /\ (req[p].pc = "idle" /\ req'[p].op = "reset")
                => IF req'[p].password # req'[p].confirmation
                   THEN req'[p].pc = "done" /\ req'[p].result = Failure(ErrMismatch)
                   ELSE req'[p].pc = "rp_findToken"
          /\ (req[p].pc = "rp_findToken" /\ Steps(p))
                => IF req[p].token \notin 1..Len(tokens)
                   THEN req'[p].pc = "done" /\ req'[p].result = Failure(ErrInvalidToken)
                   ELSE req'[p].pc = "rp_findUser" /\ req'[p].tok = tokens[req[p].token]
          /\ (req[p].pc = "rp_findUser" /\ Steps(p))
                => IF ~\E u \in users : u.id = req[p].tok.userId
                   THEN req'[p].pc = "done" /\ req'[p].result = Failure(ErrInvalidToken)
                   ELSE IF now > req[p].tok.expiresIn \/ ~req[p].tok.active
                        THEN req'[p].pc = "done" /\ req'[p].result = Failure(ErrExpiredToken)
                        ELSE req'[p].pc = "rp_updateUser"]_vars

\* a call that presented an expired or inactive token of a deleted user and a call
\* that presented an unknown token id got the same 'invalid' error
C15_Witness ==
    \E p, q \in Procs :
        /\ req[p].op = "reset" /\ req[p].pc = "done" /\ req[p].io = 2
        /\ req[p].result = Failure(ErrInvalidToken)
        /\ IsResetRejected(tokens[req[p].token], now)
        /\ ~OwnerStored(req[p])
        /\ req[q].op = "reset" /\ req[q].pc = "done" /\ req[q].io = 1
        /\ req[q].token \notin 1..Len(tokens)
        /\ req[q].result = req[p].result

\* (C16) every step of resetPassword up to and including its last validation
\* (confirmation, token lookup, owner lookup, expiry test) leaves the user table and
\* the token table as they are, and a call that ends with a validation error ends
\* in one of these steps, having issued no write
C16_FailedResetFrame ==
    [][\A p \in Procs :
          /\ (/\ Steps(p) /\ req'[p].op = "reset"
              /\ req[p].pc \in {"idle", "rp_findToken", "rp_findUser"})
                => /\ users' = users /\ tokens' = tokens /\ nextUserId' = nextUserId
                   /\ req'[p].io <= 2
          /\ (/\ Steps(p) /\ req'[p].op = "reset" /\ req'[p].pc = "done"
              /\ req'[p].result.message \in {ErrMismatch, ErrInvalidToken, ErrExpiredToken})
                => req[p].pc \in {"idle", "rp_findToken", "rp_findUser"}]_vars

\* a reset was refused for a token that ran out of time: the row is still active
\* and the owner is stored
C16_Witness ==
    \E p \in Procs :
        /\ req[p].op = "reset" /\ req[p].pc = "done" /\ req[p].io = 2
        /\ req[p].result = Failure(ErrExpiredToken)
        /\ tokens[req[p].token].active /\ tokens[req[p].token].expiresIn < now
        /\ OwnerStored(req[p])
        /\ ~CompareHash(req[p].password,
                        FindUserById(users, tokens[req[p].token].userId).password)

\* the two tests give the same verdict on every stored row at every instant, and at
\* expiresIn itself both take an active row as unexpired
C17_TestsAgreeOnRows ==
    \A i \in 1..Len(tokens), t \in 0..(MaxTime + ResetTokenTTL) :
        /\ IsLastTokenExpired(tokens[i], t) <=> IsResetRejected(tokens[i], t)
        /\ tokens[i].active /\ t = tokens[i].expiresIn
              => ~IsLastTokenExpired(tokens[i], t) /\ ~IsResetRejected(tokens[i], t)

\* generateResetPasswordToken reuses the row it read exactly when the test of
\* resetPassword would let that row pass at the same instant
C17_ReuseIffResetPasses ==
    [][\A p \in Procs :
          req[p].pc = "gen_decide" /\ Steps(p)
              => (req'[p].pc = "fp_send"
                     <=> req[p].tok.id # 0 /\ ~IsResetRejected(req[p].tok, now))]_vars

\* (C17) the expiry test of generateResetPasswordToken and the expired-or-inactive
\* test of resetPassword agree at every instant, now = expiresIn included, where
\* both take the token as unexpired: a token is reused exactly when a reset with it
\* at the same instant would pass
C17_ExpiryTestsAgree == []C17_TestsAgreeOnRows /\ C17_ReuseIffResetPasses

\* the clock stands at the expiresIn of a token; a forgot call has been handed that
\* token for reuse and a reset call with it is past the expiry test
C17_Witness ==
    \E p, q \in Procs :
        /\ req[p].pc = "fp_send" /\ req[p].io = 2
        /\ req[q].pc = "rp_updateUser" /\ req[q].tok.id = req[p].issued
        /\ tokens[req[p].issued].active /\ tokens[req[p].issued].expiresIn = now

\* (C18) sendForgotPasswordEmail for an email no stored user has ends in its first
\* step with the not-found error of the user lookup; it has been handed no token,
\* has sent no mail, and the step changes neither table
C18_UnknownEmailForgot ==
    [][\A p \in Procs :
          (/\ req[p].pc = "idle" /\ req'[p].op = "forgot"
           /\ ~\E u \in users : u.email = req'[p].email)
              => /\ req'[p].pc = "done"
                 /\ req'[p].result = Failure(ErrUserNotFound)
                 /\ req'[p].issued = 0 /\ req'[p].sent = 0 /\ req'[p].io = 1
                 /\ tokens' = tokens /\ users' = users]_vars

\* a forgot call for an unregistered email was refused while another user's token
\* sits in the table
C18_Witness ==
    \E p \in Procs :
        /\ req[p].op = "forgot" /\ req[p].pc = "done"
        /\ req[p].result = Failure(ErrUserNotFound)
        /\ req[p].issued = 0 /\ req[p].sent = 0
        /\ ~\E u \in users : u.email = req[p].email
        /\ Len(tokens) = 1 /\ \E u \in users : u.id = tokens[1].userId

\* a call reaches the mail provider once: it comes to sendEmail from the token
\* step with nothing sent, and its next step ends it, with one mail sent or with
\* the provider's error and none; either way no table changes
C19_OneSendNoRollback ==
    [][\A p \in Procs :
          /\ (Steps(p) /\ req'[p].pc = "fp_send")
                => req[p].pc \in {"gen_decide", "gen_create"} /\ req'[p].sent = 0
          /\ (Steps(p) /\ req[p].pc = "fp_send")
                => /\ req'[p].pc = "done"
                   /\ \/ req'[p].result = Success(NoOne, NoJwt) /\ req'[p].sent = 1
                      \/ req'[p].result = Failure(ErrMail) /\ req'[p].sent = 0
                   /\ tokens' = tokens /\ users' = users]_vars

\* the token minted by a request whose mail failed, while it is usable, is the one
\* a following request for the same user is handed, and that request adds no row
C19_NextRequestReuses ==
    [][\A p, q \in Procs :
          (/\ req[p].op = "forgot" /\ req[p].pc = "done"
           /\ req[p].result = Failure(ErrMail) /\ req[p].io = 3
           /\ Usable(tokens[req[p].issued], now)
           /\ req[q].pc = "gen_decide" /\ Steps(q)
           /\ req[q].user.id = tokens[req[p].issued].userId)
              => /\ req'[q].pc = "fp_send"
                 /\ req'[q].issued = req[p].issued
                 /\ tokens' = tokens]_vars

====
